---- MODULE Spec2Model ----
(***************************************************************************)
(* Parallel HTTP range downloader (src/src/main.rs): the partition of the  *)
(* resource into per-thread ranges, the range workers, the shared chunk    *)
(* buffer with its merge procedure process_chunks, and the fallback loop   *)
(* of the main thread.                                                     *)
(*                                                                         *)
(* The hasher is modelled by the byte sequence it has been fed (the digest *)
(* is a function of that sequence); fed, wmlog, fetches, wfetches, hop,   *)
(* pre and halted are history variables that record what the code did and *)
(* never influence it.                                                     *)
(***************************************************************************)
EXTENDS Integers, Sequences, FiniteSets, TLC

\* ------------------------------------------------------------------ bounds
MaxSize == 5
MaxThreads == 4
MaxOver == 1
MaxTestSize == 4
MaxTestInserts == 3
MaxHeader == 2
MaxBody == 3
MaxValueLen == 2

VARIABLES
    total_size,     \* main: total_size, the size the probe returned
    num_threads,    \* main: num_threads
    spawn_i,        \* main: loop index i of the spawning loop
    handles,        \* main: Vec of the spawned threads' ids, in spawn order
    joined,         \* main: number of handles already joined
    mainpc,         \* main thread's position
    wpc,            \* each worker thread's position
    current_start,  \* worker: current_start (the cursor)
    range_end,      \* worker: range_end
    got,            \* worker: the value download_chunk returned
    lock,           \* owner of the Mutex around the BTreeMap
    chunk_buffer,   \* the BTreeMap<usize, Vec<u8>>, as a set of entries
    bytes_hashed,   \* main: bytes_hashed (the watermark)
    hasher,         \* bytes fed to the Sha256 so far
    finalized,      \* number of hasher.finalize() calls
    digest,         \* what finalize() was computed of
    warned,         \* the warning of line 125 was printed
    fed,            \* history: key, len and watermark of every hasher.update
    wmlog,          \* history: watermark after every process_chunks of main
    fetches,        \* history: download_chunk calls of the fallback loop
    wfetches,       \* history: download_chunk calls of each worker
    server,         \* the server: "exact", "lossy" or "any" (see download_chunk)
    inserted,       \* tests.rs: number of inserts so far
    hop,            \* tests.rs: the last operation
    pre,            \* tests.rs: the state process_chunks was called in
    halted,         \* tests.rs: where the last call stopped at a gap
    placed,         \* history: the offsets at which a worker put a placeholder
    stream,         \* read_response: what the stream has still to deliver
    reader,         \* read_response: its locals and its result
    single          \* the buffer that is drained once, after all insertions

vars == <<total_size, num_threads, spawn_i, handles, joined, mainpc, wpc,
          current_start, range_end, got, lock, chunk_buffer, bytes_hashed,
          hasher, finalized, digest, warned, fed, wmlog, fetches, wfetches,
          server, inserted, hop, pre, halted, placed, stream, reader, single>>

Workers == 0 .. (MaxThreads - 1)

Min(a, b) == IF a < b THEN a ELSE b

\* ------------------------------------------------------- the remote server
\* The resource: byte o of the resource (never 0, the placeholder's value).
Resource(o) == o + 1

\* What a server puts at offset o of a body: the resource's byte, or filler
\* past the resource's end.
ServerByte(o, total) == IF o < total THEN Resource(o) ELSE 255

RECURSIVE Body(_, _, _)
Body(start, len, total) ==
    IF len = 0 THEN <<>>
    ELSE Append(Body(start, len - 1, total), ServerByte(start + len - 1, total))

\* Number of bytes of the resource inside [start, end).
ExactLen(start, end, total) ==
    IF Min(end, total) <= start THEN 0 ELSE Min(end, total) - start

\* download_chunk(addr, start, end). Any server: Ok(body) with a body of any
\* length (the response's own content-length decides, not the request),
\* Err(e), or a panic inside read_response (the unwrap of the content-length
\* parse). The exact server: Ok(body), the body being the resource's bytes of
\* the range asked for. The lossy server: Err(e), or Ok(body) with bytes of
\* the resource inside the range asked for only (a prefix of them, possibly
\* none: the connection may close early).
download_chunk(srv, start, end, total) ==
    IF srv = "exact"
    THEN {[kind |-> "ok", body |-> Body(start, ExactLen(start, end, total), total)]}
    ELSE IF srv = "lossy"
    THEN {[kind |-> "err", body |-> <<>>]}
         \cup {[kind |-> "ok", body |-> Body(start, len, total)] :
                 len \in 0 .. ExactLen(start, end, total)}
    ELSE {[kind |-> "err", body |-> <<>>], [kind |-> "panic", body |-> <<>>]}
         \cup {[kind |-> "ok", body |-> Body(start, len, total)] :
                 len \in 0 .. ((end - start) + MaxOver)}

\* ------------------------------------------------------------ the BTreeMap
Entry(k, chunk) == [start |-> k, chunk |-> chunk]

Keys(buf) == {e.start : e \in buf}

\* BTreeMap::insert: an existing entry of the key is replaced.
Insert(buf, k, chunk) == {e \in buf : e.start # k} \cup {Entry(k, chunk)}

\* Mutant: the entry of the largest key (last_key_value).
first_key_value_Last(buf) == CHOOSE e \in buf : \A f \in buf : e.start >= f.start

\* BTreeMap::first_key_value
first_key_value(buf) == CHOOSE e \in buf : \A f \in buf : e.start <= f.start

\* ----------------------------------------------------------- process_chunks
\* The state process_chunks works on, and its return value (err).
MergeState(h, f, bh, buf, err) ==
    [hasher |-> h, fed |-> f, bytes_hashed |-> bh, chunk_buffer |-> buf, err |-> err]

\* The check after the loop (lines 180-182).
PostCheck(st, total) ==
    IF st.bytes_hashed > total THEN [st EXCEPT !.err = "exceed"] ELSE st

\* Mutant: every entry that is not the next one is discarded.
IsOverlap_NotNext(start, bh) == start # bh

\* Mutant: an entry beyond a gap is taken for the next one.
IsNext_OrLater(start, bh) == start >= bh

\* Mutant: no check of the chunk's length.
Overruns_Never(bh, len, total) == FALSE

\* Mutant: the check is off by one.
Overruns_OffByOne(bh, len, total) == bh + len > total + 1

\* Mutant: an entry behind the watermark is never discarded.
IsOverlap_Never(start, bh) == FALSE

\* The three tests of the loop body (lines 159, 161, 162).
IsOverlap(start, bh) == start < bh

IsNext(start, bh) == start = bh

Overruns(bh, len, total) == bh + len > total

\* The loop of lines 155-178: one iteration per call. An update of the hasher
\* is logged in fed with the entry's key, its length and the watermark before.
RECURSIVE MergeLoop(_, _)
MergeLoop(st, total) ==
    IF st.chunk_buffer = {} THEN st                                  \* None => break
    ELSE LET e == first_key_value(st.chunk_buffer)
             start == e.start
             chunk == e.chunk
         IN  IF IsOverlap(start, st.bytes_hashed)
             THEN MergeLoop([st EXCEPT !.chunk_buffer = @ \ {e}], total)
             ELSE IF IsNext(start, st.bytes_hashed)
             THEN IF Overruns(st.bytes_hashed, Len(chunk), total)
                  THEN [st EXCEPT !.err = "overrun"]                  \* return Err
                  ELSE MergeLoop(
                         [st EXCEPT !.hasher = @ \o chunk,
                                    !.fed = Append(@, [key |-> start, len |-> Len(chunk),
                                                       wm |-> st.bytes_hashed]),
                                    !.bytes_hashed = @ + Len(chunk),
                                    !.chunk_buffer = @ \ {e}], total)
             ELSE st                                                 \* gap => break

process_chunks(st, total) ==
    LET r == MergeLoop(st, total)
    IN  IF r.err # "none" THEN r ELSE PostCheck(r, total)

\* process_chunks on the variables.
CurrentMerge == MergeState(hasher, fed, bytes_hashed, chunk_buffer, "none")

\* ------------------------------------------------------------------- main
\* Line 44.
chunk_size(total, n) == (total + n - 1) \div n

\* Lines 48-49: the range of thread i.
RangeStart(i, total, n) == i * chunk_size(total, n)

RangeEnd(i, total, n) ==
    IF i = n - 1 THEN total - 1 ELSE (i + 1) * chunk_size(total, n) - 1

\* Mutant: the body is inserted as it was received, an empty one too.
ChunkToInsert_AsReceived(res) == res.body

\* Mutant: the cursor always moves by the length of the body.
Advance_ByLength(res) == Len(res.body)

\* Mutant: the loop ends one byte early.
FallbackContinues_OffByOne(bh, total) == bh + 1 < total

\* Lines 64-80 and 105-114: what is inserted for a fetch result.
ChunkToInsert(res) ==
    IF res.kind = "ok" /\ res.body # <<>> THEN res.body ELSE <<0>>

\* Lines 67, 71, 79: how far the cursor moves for a fetch result.
Advance(res) ==
    IF res.kind = "ok" /\ res.body # <<>> THEN Len(res.body) ELSE 1

\* Lines 65, 75: the fetch failed (Err) or its body is empty.
FailedOrEmpty(res) == res.kind = "err" \/ res.body = <<>>

\* Line 59: the worker's loop condition.
WorkerContinues(cur, last) == cur <= last

\* Lines 59, 83: where the thread is after the loop condition's test.
AfterLoopTest(cur, last) == IF WorkerContinues(cur, last) THEN "loop" ELSE "done"

\* Line 96: the fallback loop's condition.
FallbackContinues(bh, total) == bh < total

\* A history counter that stops counting one past the resource's size.
Count(n, total) == IF n > total THEN n ELSE n + 1

NoCall == [chunk_buffer |-> {}, bytes_hashed |-> 0, hasher |-> <<>>]

NoHalt == [bytes_hashed |-> 0, keys |-> {}]

NoResult == [kind |-> "none", body |-> <<>>]

NoStream == [header |-> 0, body |-> 0, sent |-> 0]
NoReader == [pc |-> "none"]
NoSingle == [chunk_buffer |-> {}, keys |-> <<>>, repeated |-> FALSE, drained |-> FALSE,
             bytes_hashed |-> 0, hasher |-> <<>>, err |-> "none"]

Free == <<>>
HeldByMain == <<"main">>
HeldBy(w) == <<"worker", w>>

\* Mutant: lock() returns while another thread holds the mutex.
CanLock_Always(l) == TRUE

\* Lines 63, 77, 95: chunk_buffer.lock() returns when no thread holds the mutex.
CanLock(l) == l = Free

\* Mutant: join() returns while the thread is still running.
JoinReturns_Always(pc) == TRUE

\* Line 89: handle.join() returns when the thread has ended (Ok, or Err for a
\* thread that panicked).
JoinReturns(pc) == pc \in {"done", "panicked"}

Init ==
    /\ total_size \in 1 .. MaxSize
    /\ num_threads \in 1 .. MaxThreads
    /\ spawn_i = 0
    /\ handles = <<>>
    /\ joined = 0
    /\ mainpc = "spawn"
    /\ wpc = [w \in Workers |-> "idle"]
    /\ current_start = [w \in Workers |-> 0]
    /\ range_end = [w \in Workers |-> 0]
    /\ got = [w \in Workers |-> NoResult]
    /\ lock = Free
    /\ chunk_buffer = {}
    /\ bytes_hashed = 0
    /\ hasher = <<>>
    /\ finalized = 0
    /\ digest = <<>>
    /\ warned = FALSE
    /\ fed = <<>>
    /\ wmlog = <<>>
    /\ fetches = 0
    /\ wfetches = [w \in Workers |-> 0]
    /\ server \in {"exact", "lossy", "any"}
    /\ inserted = 0
    /\ hop = "run"
    /\ pre = NoCall
    /\ halted = NoHalt
    /\ placed = {}
    /\ stream = NoStream
    /\ reader = NoReader
    /\ single = NoSingle

mainVars == <<mainpc, bytes_hashed, hasher, finalized, digest, warned, fed, wmlog, fetches>>
spawnVars == <<spawn_i, handles, joined>>
workerVars == <<wpc, current_start, range_end, got, wfetches>>
testVars == <<inserted, hop, pre, halted>>
configVars == <<total_size, num_threads, server>>
otherVars == <<stream, reader, single>>

\* Lines 47-86: one iteration of the spawning loop that spawns thread i.
Spawn ==
    /\ mainpc = "spawn"
    /\ spawn_i < num_threads
    /\ RangeStart(spawn_i, total_size, num_threads) < total_size
    /\ wpc' = [wpc EXCEPT ![spawn_i] =
                    AfterLoopTest(RangeStart(spawn_i, total_size, num_threads),
                                  RangeEnd(spawn_i, total_size, num_threads))]
    /\ current_start' = [current_start EXCEPT
                            ![spawn_i] = RangeStart(spawn_i, total_size, num_threads)]
    /\ range_end' = [range_end EXCEPT
                            ![spawn_i] = RangeEnd(spawn_i, total_size, num_threads)]
    /\ handles' = Append(handles, spawn_i)
    /\ spawn_i' = spawn_i + 1
    /\ UNCHANGED <<configVars, otherVars, placed, joined, mainVars, got, wfetches, lock, chunk_buffer,
                   testVars>>

\* Lines 47, 50-52: the spawning loop ends (all spawned, or start >= total_size).
SpawnEnd ==
    /\ mainpc = "spawn"
    /\ \/ spawn_i = num_threads
       \/ /\ spawn_i < num_threads
          /\ RangeStart(spawn_i, total_size, num_threads) >= total_size
    /\ mainpc' = "join"
    /\ UNCHANGED <<configVars, otherVars, placed, spawnVars, workerVars, lock, chunk_buffer, bytes_hashed,
                   hasher, finalized, digest, warned, fed, wmlog, fetches,
                   testVars>>

\* Lines 60-63, 75-77: in the loop's body, download_chunk returns Ok or
\* Err, and the thread takes the lock (a thread that waits for the lock has
\* changed nothing another thread can see, so the return and the lock() are
\* one step).
WorkerFetch(w) ==
    /\ wpc[w] = "loop"
    /\ CanLock(lock)
    /\ \E res \in download_chunk(server, current_start[w], range_end[w] + 1, total_size) :
         /\ res.kind # "panic"
         /\ got' = [got EXCEPT ![w] = res]
    /\ lock' = HeldBy(w)
    /\ wpc' = [wpc EXCEPT ![w] = "locked"]
    /\ wfetches' = [wfetches EXCEPT ![w] = Count(@, total_size)]
    /\ UNCHANGED <<configVars, otherVars, placed, spawnVars, mainVars, current_start, range_end,
                   chunk_buffer, testVars>>

\* Lines 60-61: in the loop's body, download_chunk panics, which ends
\* the thread (it holds no lock there).
WorkerPanic(w) ==
    /\ wpc[w] = "loop"
    /\ \E res \in download_chunk(server, current_start[w], range_end[w] + 1, total_size) :
         res.kind = "panic"
    /\ wpc' = [wpc EXCEPT ![w] = "panicked"]
    /\ wfetches' = [wfetches EXCEPT ![w] = Count(@, total_size)]
    /\ UNCHANGED <<configVars, otherVars, placed, spawnVars, mainVars, current_start, range_end, got,
                   lock, chunk_buffer, testVars>>

\* Lines 59, 64-73, 78-83: the insert, the cursor's advance, the guard's drop,
\* and the loop condition, with which the thread goes on or ends.
WorkerInsert(w) ==
    /\ wpc[w] = "locked"
    /\ chunk_buffer' = Insert(chunk_buffer, current_start[w], ChunkToInsert(got[w]))
    /\ current_start' = [current_start EXCEPT ![w] = @ + Advance(got[w])]
    /\ got' = [got EXCEPT ![w] = NoResult]
    /\ lock' = Free
    /\ wpc' = [wpc EXCEPT ![w] = AfterLoopTest(current_start[w] + Advance(got[w]),
                                               range_end[w])]
    /\ placed' = IF FailedOrEmpty(got[w]) THEN placed \cup {current_start[w]}
                 ELSE placed
    /\ UNCHANGED <<configVars, otherVars, spawnVars, mainVars, range_end, wfetches,
                   testVars>>

\* Lines 88-93: handle.join() of the next handle returns (Ok, or Err for a
\* thread that panicked).
Join ==
    /\ mainpc = "join"
    /\ joined < Len(handles)
    /\ JoinReturns(wpc[handles[joined + 1]])
    /\ joined' = joined + 1
    /\ UNCHANGED <<configVars, otherVars, placed, spawn_i, handles, mainVars, workerVars, lock,
                   chunk_buffer, testVars>>

\* Line 95: chunk_buffer.lock() after the last join.
MainLock ==
    /\ mainpc = "join"
    /\ joined = Len(handles)
    /\ CanLock(lock)
    /\ lock' = HeldByMain
    /\ mainpc' = "loop"
    /\ UNCHANGED <<configVars, otherVars, placed, spawnVars, workerVars, chunk_buffer, bytes_hashed,
                   hasher, finalized, digest, warned, fed, wmlog, fetches,
                   testVars>>

\* Lines 96-99: the loop condition holds and process_chunks runs; an Err is
\* returned from main by the ? operator.
MainProcess ==
    /\ mainpc = "loop"
    /\ FallbackContinues(bytes_hashed, total_size)
    /\ LET r == process_chunks(CurrentMerge, total_size)
       IN  /\ hasher' = r.hasher
           /\ fed' = r.fed
           /\ bytes_hashed' = r.bytes_hashed
           /\ chunk_buffer' = r.chunk_buffer
           /\ wmlog' = IF Len(wmlog) > total_size THEN wmlog
                       ELSE Append(wmlog, r.bytes_hashed)
           /\ mainpc' = IF r.err # "none" THEN "error"
                        ELSE IF r.bytes_hashed < total_size THEN "fetch" ELSE "loop"
           /\ lock' = IF r.err # "none" THEN Free ELSE lock
    /\ UNCHANGED <<configVars, otherVars, placed, spawnVars, workerVars, finalized, digest, warned,
                   fetches, testVars>>

\* Lines 100-116: the fallback fetch of [bytes_hashed, total_size - 1] and the
\* insert of its result at bytes_hashed.
MainFetch ==
    /\ mainpc = "fetch"
    /\ \E res \in download_chunk(server, bytes_hashed, (total_size - 1) + 1, total_size) :
         /\ mainpc' = IF res.kind = "panic" THEN "panicked" ELSE "loop"
         /\ lock' = IF res.kind = "panic" THEN Free ELSE lock
         /\ chunk_buffer' = IF res.kind = "panic" THEN chunk_buffer
                            ELSE Insert(chunk_buffer, bytes_hashed, ChunkToInsert(res))
    /\ fetches' = Count(fetches, total_size)
    /\ UNCHANGED <<configVars, otherVars, placed, spawnVars, workerVars, bytes_hashed, hasher, finalized,
                   digest, warned, fed, wmlog, testVars>>

\* Line 96: the loop condition fails.
MainExit ==
    /\ mainpc = "loop"
    /\ ~FallbackContinues(bytes_hashed, total_size)
    /\ mainpc' = "finalize"
    /\ UNCHANGED <<configVars, otherVars, placed, spawnVars, workerVars, lock, chunk_buffer, bytes_hashed,
                   hasher, finalized, digest, warned, fed, wmlog, fetches,
                   testVars>>

\* Lines 120-128: finalize, the report, the warning, and the return.
Finalize ==
    /\ mainpc = "finalize"
    /\ finalized' = finalized + 1
    /\ digest' = hasher
    /\ warned' = (bytes_hashed # total_size)
    /\ lock' = Free
    /\ mainpc' = "done"
    /\ UNCHANGED <<configVars, otherVars, placed, spawnVars, workerVars, chunk_buffer, bytes_hashed,
                   hasher, fed, wmlog, fetches, testVars>>

Next ==
    \/ Spawn
    \/ SpawnEnd
    \/ \E w \in Workers : WorkerFetch(w)
    \/ \E w \in Workers : WorkerPanic(w)
    \/ \E w \in Workers : WorkerInsert(w)
    \/ Join
    \/ MainLock
    \/ MainProcess
    \/ MainFetch
    \/ MainExit
    \/ Finalize

Spec == Init /\ [][Next]_vars

\* ------------------------------------------- process_chunks called directly
\* src/src/tests.rs calls process_chunks on buffers it fills itself
\* (test_process_chunks, test_multi_request_chunk_processing): a fresh hasher,
\* bytes_hashed = 0, an empty BTreeMap, then inserts and calls in any order.
InitPC ==
    /\ total_size \in 1 .. MaxTestSize
    /\ num_threads = 1
    /\ server = "any"
    /\ spawn_i = 0
    /\ handles = <<>>
    /\ joined = 0
    /\ mainpc = "test"
    /\ wpc = [w \in Workers |-> "idle"]
    /\ current_start = [w \in Workers |-> 0]
    /\ range_end = [w \in Workers |-> 0]
    /\ got = [w \in Workers |-> NoResult]
    /\ lock = Free
    /\ chunk_buffer = {}
    /\ bytes_hashed = 0
    /\ hasher = <<>>
    /\ finalized = 0
    /\ digest = <<>>
    /\ warned = FALSE
    /\ fed = <<>>
    /\ wmlog = <<>>
    /\ fetches = 0
    /\ wfetches = [w \in Workers |-> 0]
    /\ inserted = 0
    /\ hop = "new"
    /\ pre = NoCall
    /\ halted = NoHalt
    /\ placed = {}
    /\ stream = NoStream
    /\ reader = NoReader
    /\ single = NoSingle

\* The chunks a test inserts at key k: bytes of a response, of any length.
TestChunks(k, total) ==
    {Body(k, len, total) : len \in 1 .. ((total - k) + MaxOver)}

\* tests.rs lines 94-95, 101, 120, 125, 135, 144: chunk_buffer.insert(k, chunk)
TestInsert ==
    /\ mainpc = "test"
    /\ inserted < MaxTestInserts
    /\ \E k \in 0 .. total_size :
         \E chunk \in TestChunks(k, total_size) :
              chunk_buffer' = Insert(chunk_buffer, k, chunk)
    /\ inserted' = inserted + 1
    /\ hop' = "insert"
    /\ pre' = NoCall
    /\ UNCHANGED <<configVars, otherVars, placed, spawnVars, workerVars, lock, mainVars, halted>>

\* tests.rs lines 96, 102, 127, 136, 145: process_chunks(...) and its result.
TestProcess ==
    /\ mainpc = "test"
    /\ LET r == process_chunks(CurrentMerge, total_size)
       IN  /\ hasher' = r.hasher
           /\ fed' = r.fed
           /\ bytes_hashed' = r.bytes_hashed
           /\ chunk_buffer' = r.chunk_buffer
           /\ hop' = IF r.err = "none" THEN "ok" ELSE "err"
           /\ halted' = IF r.err = "none" /\ r.chunk_buffer # {}
                         THEN [bytes_hashed |-> r.bytes_hashed,
                               keys |-> Keys(r.chunk_buffer)]
                         ELSE halted
    /\ pre' = [chunk_buffer |-> chunk_buffer, bytes_hashed |-> bytes_hashed,
               hasher |-> hasher]
    /\ UNCHANGED <<configVars, otherVars, placed, spawnVars, workerVars, lock, mainpc, finalized, digest,
                   warned, wmlog, fetches, inserted>>

NextPC ==
    \/ TestInsert
    \/ TestProcess

SpecPC == InitPC /\ [][NextPC]_vars

\* ----------------------------------------------------------- read_response
\* read_response(stream) as download_chunk calls it on the connection and as
\* tests.rs calls it on a MockStream: the stream delivers the header block
\* (up to and including the first "\r\n\r\n"), then the body bytes, in reads
\* of any size, and then closes (a read of 0 bytes) or fails (a read's Err).
\* Lines 193, 222: the size of the read buffer.
TempSize == 4096

\* The characters of a content-length value: digits, a blank, a letter.
DigitChars == <<"0", "1", "2", "3", "4", "5", "6", "7", "8", "9">>

IsDigit(c) == \E i \in 1 .. 10 : DigitChars[i] = c

DigitValue(c) == (CHOOSE i \in 1 .. 10 : DigitChars[i] = c) - 1

ValueChars == {"0", "2", " ", "x"}

\* What follows "content-length:" on the header's line.
Values == UNION {[1 .. n -> ValueChars] : n \in 0 .. MaxValueLen}

\* The header block's content-length line: none, or one with a value.
LengthLines ==
    {[present |-> FALSE, value |-> <<>>]}
    \cup {[present |-> TRUE, value |-> v] : v \in Values}

\* The responses a stream can carry. A stream that lacks the terminator has
\* no body: all its bytes are header bytes.
Streams ==
    {[header |-> h, terminated |-> t, body |-> b, sent |-> b, close |-> c,
      utf8 |-> u, length |-> l] :
        h \in 1 .. MaxHeader, t \in BOOLEAN, b \in 0 .. MaxBody,
        c \in {"eof", "reset"}, u \in BOOLEAN, l \in LengthLines}

Available(s) == s.header + s.body

\* Line 214: str::trim
RECURSIVE trim_start(_)
trim_start(s) ==
    IF s # <<>> /\ Head(s) = " " THEN trim_start(Tail(s)) ELSE s

RECURSIVE trim_end(_)
trim_end(s) ==
    IF s # <<>> /\ s[Len(s)] = " " THEN trim_end(SubSeq(s, 1, Len(s) - 1)) ELSE s

trim(s) == trim_end(trim_start(s))

RECURSIVE Number(_)
Number(s) ==
    IF s = <<>> THEN 0
    ELSE 10 * Number(SubSeq(s, 1, Len(s) - 1)) + DigitValue(s[Len(s)])

\* Line 214: parse::<usize>() of the trimmed value: Ok(number) or Err.
parse(s) ==
    IF s # <<>> /\ \A i \in 1 .. Len(s) : IsDigit(s[i])
    THEN [ok |-> TRUE, value |-> Number(s)]
    ELSE [ok |-> FALSE, value |-> 0]

\* Line 220: len - body.len() on usize. Below zero the debug build panics
\* ("attempt to subtract with overflow") and the release build wraps around
\* to 2^64 - n, written here as wrapped with n.
Remaining(len, n) ==
    IF n <= len
    THEN {[kind |-> "ok", wrapped |-> FALSE, n |-> len - n]}
    ELSE {[kind |-> "panic", wrapped |-> FALSE, n |-> 0],
          [kind |-> "ok", wrapped |-> TRUE, n |-> n - len]}

\* Line 221: remaining > 0
Positive(rem) == rem.wrapped \/ rem.n > 0

\* Line 222: remaining.min(4096)
ReadSize(rem) == IF rem.wrapped THEN TempSize ELSE Min(rem.n, TempSize)

\* Line 226: remaining -= n, with n <= remaining.
Decrease(rem, n) ==
    IF rem.wrapped THEN [rem EXCEPT !.n = @ + n] ELSE [rem EXCEPT !.n = @ - n]

NoLength == [some |-> FALSE, len |-> 0]

Done(r, result) == [r EXCEPT !.pc = "done", !.result = result]

\* Lines 205-221: the headers are complete and b body bytes came with them:
\* the UTF-8 check, the scan for the content-length line, the parse of its
\* value and the count of the bytes still to read.
AfterHeaders(r, b, s) ==
    LET r1 == [r EXCEPT !.headers_complete = TRUE, !.body = b, !.first = b]
        p == parse(trim(s.length.value))
    IN  IF ~s.utf8 THEN {Done(r1, "InvalidData")}
        ELSE IF ~s.length.present THEN {Done(r1, "Ok")}
        ELSE IF ~p.ok THEN {Done(r1, "panic: unwrap on ParseIntError")}
        ELSE {IF rem.kind = "panic"
                THEN Done([r1 EXCEPT !.content_length = [some |-> TRUE, len |-> p.value]],
                          "panic: subtract with overflow")
              ELSE IF Positive(rem)
                THEN [r1 EXCEPT !.content_length = [some |-> TRUE, len |-> p.value],
                                !.remaining = [wrapped |-> rem.wrapped, n |-> rem.n],
                                !.pc = "body"]
              ELSE Done([r1 EXCEPT !.content_length = [some |-> TRUE, len |-> p.value]],
                        "Ok") :
              rem \in Remaining(p.value, b)}

\* The variables of a run of main, at rest while a function is called alone.
NoRun ==
    /\ num_threads = 1
    /\ server = "any"
    /\ spawn_i = 0
    /\ handles = <<>>
    /\ joined = 0
    /\ wpc = [w \in Workers |-> "idle"]
    /\ current_start = [w \in Workers |-> 0]
    /\ range_end = [w \in Workers |-> 0]
    /\ got = [w \in Workers |-> NoResult]
    /\ lock = Free
    /\ finalized = 0
    /\ digest = <<>>
    /\ warned = FALSE
    /\ wmlog = <<>>
    /\ fetches = 0
    /\ wfetches = [w \in Workers |-> 0]
    /\ inserted = 0
    /\ pre = NoCall
    /\ halted = NoHalt
    /\ placed = {}

runVars == <<configVars, spawnVars, workerVars, mainVars, testVars, lock,
             chunk_buffer, placed>>

\* Lines 188-190: the call's locals before the first read.
InitRR ==
    /\ NoRun
    /\ total_size = 1
    /\ mainpc = "read_response"
    /\ chunk_buffer = {}
    /\ bytes_hashed = 0
    /\ hasher = <<>>
    /\ fed = <<>>
    /\ hop = "new"
    /\ single = NoSingle
    /\ stream \in {s \in Streams : ~s.terminated => s.body = 0}
    /\ reader = [pc |-> "headers", buffer |-> 0, headers_complete |-> FALSE,
                 body |-> 0, first |-> 0, content_length |-> NoLength,
                 remaining |-> [wrapped |-> FALSE, n |-> 0], result |-> "none"]

\* Lines 192-203 (and 205-221 once the terminator is in the buffer): one
\* stream.read of the header loop.
ReadHeaders ==
    /\ reader.pc = "headers"
    /\ \/ /\ Available(stream) = 0
          /\ reader' = Done(reader, IF stream.close = "eof" THEN "UnexpectedEof"
                                    ELSE "IoError")
          /\ stream' = stream
       \/ \E n \in 1 .. Min(TempSize, Available(stream)) :
            LET h == Min(n, stream.header)
                s == [stream EXCEPT !.header = @ - h, !.body = @ - (n - h)]
                r == [reader EXCEPT !.buffer = @ + n]
            IN  /\ stream' = s
                /\ IF s.header = 0 /\ s.terminated
                   THEN reader' \in AfterHeaders(r, n - h, s)
                   ELSE reader' = r
    /\ UNCHANGED <<runVars, single>>

\* Lines 221-231: one stream.read of the body loop.
ReadBody ==
    /\ reader.pc = "body"
    /\ \/ /\ stream.body = 0
          /\ reader' = Done(reader, IF stream.close = "eof" THEN "Ok" ELSE "IoError")
          /\ stream' = stream
       \/ \E n \in 1 .. Min(ReadSize(reader.remaining), stream.body) :
            LET rem == Decrease(reader.remaining, n)
                r == [reader EXCEPT !.body = @ + n, !.remaining = rem]
            IN  /\ stream' = [stream EXCEPT !.body = @ - n]
                /\ reader' = IF Positive(rem) THEN r ELSE Done(r, "Ok")
    /\ UNCHANGED <<runVars, single>>

NextRR ==
    \/ ReadHeaders
    \/ ReadBody

SpecRR == InitRR /\ [][NextRR]_vars

\* ------------------------------------- process_chunks: after each insert, once
\* The same insertions go into two buffers. On the first process_chunks runs
\* after every insertion, as the fallback loop of main calls it (lines 96-116);
\* on the second (single) it runs once, after the last insertion, as main
\* calls it after the join (lines 88-97).
InitEq ==
    /\ NoRun
    /\ total_size \in 1 .. MaxTestSize
    /\ mainpc = "insertions"
    /\ chunk_buffer = {}
    /\ bytes_hashed = 0
    /\ hasher = <<>>
    /\ fed = <<>>
    /\ hop = "new"
    /\ single = NoSingle
    /\ stream = NoStream
    /\ reader = NoReader

\* One insertion: into the first buffer, followed by process_chunks, and into
\* the second buffer (keys records the keys in the order of insertion, repeated
\* that a key was inserted twice).
InsertAndMerge ==
    /\ ~single.drained
    /\ inserted < MaxTestInserts
    /\ \E k \in 0 .. total_size :
         \E chunk \in TestChunks(k, total_size) :
            LET r == process_chunks(MergeState(hasher, fed, bytes_hashed,
                                               Insert(chunk_buffer, k, chunk), "none"),
                                    total_size)
            IN  /\ hasher' = r.hasher
                /\ fed' = r.fed
                /\ bytes_hashed' = r.bytes_hashed
                /\ chunk_buffer' = r.chunk_buffer
                /\ hop' = IF r.err = "none" THEN "ok" ELSE "err"
                /\ single' = [single EXCEPT
                                 !.chunk_buffer = Insert(@, k, chunk),
                                 !.keys = Append(@, k),
                                 !.repeated = @ \/ k \in Keys(single.chunk_buffer)]
    /\ inserted' = inserted + 1
    /\ UNCHANGED <<configVars, spawnVars, workerVars, lock, mainpc, finalized, digest,
                   warned, wmlog, fetches, pre, halted, placed, stream, reader>>

\* The one process_chunks call on the second buffer, with a fresh hasher and
\* bytes_hashed = 0, after the last insertion.
SingleDrain ==
    /\ ~single.drained
    /\ LET r == process_chunks(MergeState(<<>>, <<>>, 0, single.chunk_buffer, "none"),
                               total_size)
       IN  single' = [single EXCEPT !.drained = TRUE,
                                    !.chunk_buffer = r.chunk_buffer,
                                    !.bytes_hashed = r.bytes_hashed,
                                    !.hasher = r.hasher,
                                    !.err = r.err]
    /\ UNCHANGED <<runVars, stream, reader>>

NextEq ==
    \/ InsertAndMerge
    \/ SingleDrain

SpecEq == InitEq /\ [][NextEq]_vars

\* ================================================================= claims
\* Helpers of the claims, computed from the buffer without the code's operators.
MinKey(buf) == CHOOSE k \in Keys(buf) : \A j \in Keys(buf) : k <= j

EntryAt(buf, k) == CHOOSE e \in buf : e.start = k

\* The chunks of buf, concatenated in ascending order of offset.
RECURSIVE ConcatInOrder(_)
ConcatInOrder(buf) ==
    IF buf = {} THEN <<>>
    ELSE LET e == EntryAt(buf, MinKey(buf))
         IN  e.chunk \o ConcatInOrder(buf \ {e})

\* buf's chunks are non-empty and cover exactly [o, total), without gap or overlap.
RECURSIVE TilesFrom(_, _, _)
TilesFrom(buf, o, total) ==
    IF buf = {} THEN o = total
    ELSE /\ o \in Keys(buf)
         /\ Len(EntryAt(buf, o).chunk) >= 1
         /\ TilesFrom(buf \ {EntryAt(buf, o)}, o + Len(EntryAt(buf, o).chunk), total)

\* Where the contiguous run of buf's entries that starts at offset o ends.
RECURSIVE EndOfRun(_, _)
EndOfRun(buf, o) ==
    IF o \in Keys(buf) /\ Len(EntryAt(buf, o).chunk) >= 1
    THEN EndOfRun(buf \ {EntryAt(buf, o)}, o + Len(EntryAt(buf, o).chunk))
    ELSE o

\* C1: every update of the hasher feeds the entry whose key is the watermark
\* just before the update, so the intervals fed are [0, l1), [l1, l1 + l2), ...:
\* ascending, without gap, no offset twice, and together [0, bytes_hashed).
C1_FedTilesWatermark ==
    /\ \A k \in 1 .. Len(fed) :
         /\ fed[k].key = fed[k].wm
         /\ fed[k].len >= 1
         /\ fed[k].wm = (IF k = 1 THEN 0 ELSE fed[k - 1].wm + fed[k - 1].len)
    /\ bytes_hashed = (IF fed = <<>> THEN 0 ELSE fed[Len(fed)].wm + fed[Len(fed)].len)
    /\ Len(hasher) = bytes_hashed

\* C1 witness: a run of several workers under any fetch outcomes, completed by
\* a fallback fetch, whose hasher was updated at least three times.
C1_Witness ==
    /\ server = "any"
    /\ Len(handles) >= 2
    /\ Len(fed) >= 3
    /\ fetches >= 1
    /\ mainpc = "done"

\* C2: process_chunks called with bytes_hashed = 0 on a buffer whose chunks
\* cover exactly [0, total_size) returns Ok with bytes_hashed = total_size, an
\* empty buffer, and the hasher fed the chunks in ascending order of offset.
C2_ExactCoverMerges ==
    (/\ hop \in {"ok", "err"}
     /\ pre.bytes_hashed = 0
     /\ TilesFrom(pre.chunk_buffer, 0, total_size))
    => /\ hop = "ok"
       /\ bytes_hashed = total_size
       /\ chunk_buffer = {}
       /\ hasher = ConcatInOrder(pre.chunk_buffer)

\* C2 witness: a cover of three chunks has been merged.
C2_Witness ==
    /\ hop = "ok"
    /\ pre.bytes_hashed = 0
    /\ Cardinality(pre.chunk_buffer) = 3
    /\ TilesFrom(pre.chunk_buffer, 0, total_size)
    /\ bytes_hashed = total_size

\* The bytes of the contiguous run of buf's entries that starts at offset o.
RECURSIVE RunBytes(_, _)
RunBytes(buf, o) ==
    IF o \in Keys(buf) /\ Len(EntryAt(buf, o).chunk) >= 1
    THEN EntryAt(buf, o).chunk
         \o RunBytes(buf \ {EntryAt(buf, o)}, o + Len(EntryAt(buf, o).chunk))
    ELSE <<>>

\* C3 (as claimed): with a server that answers every fetch with exactly the
\* resource's bytes of the range asked for, the run never ends in an error, and
\* it ends with bytes_hashed = total_size and the resource's bytes hashed.
C3_ExactRunCompletes ==
    server = "exact"
    => /\ mainpc # "error"
       /\ mainpc = "done"
          => /\ bytes_hashed = total_size
             /\ digest = Body(0, total_size, total_size)

\* C4: bytes_hashed never exceeds total_size, after no merge of the run either;
\* a run that ended in the error has its watermark where it was, with the
\* entry that would have pushed it past total_size still the buffer's first,
\* and has finalized nothing.
C4_WatermarkBounded ==
    /\ bytes_hashed <= total_size
    /\ \A k \in 1 .. Len(wmlog) : wmlog[k] <= total_size
    /\ mainpc = "error"
       => /\ chunk_buffer # {}
          /\ MinKey(chunk_buffer) = bytes_hashed
          /\ bytes_hashed + Len(EntryAt(chunk_buffer, bytes_hashed).chunk) > total_size
          /\ finalized = 0
          /\ ~ENABLED (MainProcess \/ MainFetch \/ MainExit \/ Finalize)

\* C4 witness: a run ended in the error after it had hashed some bytes.
C4_Witness ==
    /\ mainpc = "error"
    /\ bytes_hashed >= 1
    /\ bytes_hashed < total_size

\* C5: a call of process_chunks whose first entry is at the watermark and would
\* end past total_size returns the error, and leaves the watermark, the hasher
\* and the entry as they were.
C5_OverrunFails ==
    (/\ hop \in {"ok", "err"}
     /\ pre.chunk_buffer # {}
     /\ MinKey(pre.chunk_buffer) = pre.bytes_hashed
     /\ pre.bytes_hashed + Len(EntryAt(pre.chunk_buffer, pre.bytes_hashed).chunk)
          > total_size)
    => /\ hop = "err"
       /\ bytes_hashed = pre.bytes_hashed
       /\ hasher = pre.hasher
       /\ chunk_buffer = pre.chunk_buffer

\* C5 witness: the case of tests.rs, an entry at total_size when the watermark
\* is total_size.
C5_Witness ==
    /\ hop = "err"
    /\ pre.bytes_hashed = total_size
    /\ pre.chunk_buffer # {}
    /\ MinKey(pre.chunk_buffer) = total_size

\* C6: a call whose first entry lies beyond the watermark returns Ok and
\* changes nothing; a call whose first entry is at the watermark hashes the
\* whole contiguous run that starts there (when the run ends within
\* total_size), drops what the run overlaps and keeps the entries beyond it.
C6_GapHaltsAndResumes ==
    /\ (/\ hop \in {"ok", "err"}
        /\ pre.chunk_buffer # {}
        /\ MinKey(pre.chunk_buffer) > pre.bytes_hashed)
       => /\ hop = "ok"
          /\ bytes_hashed = pre.bytes_hashed
          /\ hasher = pre.hasher
          /\ chunk_buffer = pre.chunk_buffer
    /\ (/\ hop \in {"ok", "err"}
        /\ pre.chunk_buffer # {}
        /\ MinKey(pre.chunk_buffer) = pre.bytes_hashed
        /\ EndOfRun(pre.chunk_buffer, pre.bytes_hashed) <= total_size)
       => /\ hop = "ok"
          /\ bytes_hashed = EndOfRun(pre.chunk_buffer, pre.bytes_hashed)
          /\ hasher = pre.hasher \o RunBytes(pre.chunk_buffer, pre.bytes_hashed)
          /\ chunk_buffer = {e \in pre.chunk_buffer : e.start > bytes_hashed}

\* C6 witness: a call stopped at a gap with two later entries in the buffer;
\* the chunk at the watermark was inserted afterwards, and the next call
\* merged it and both of the later entries.
C6_Witness ==
    /\ hop = "ok"
    /\ Cardinality(halted.keys) = 2
    /\ halted.bytes_hashed = pre.bytes_hashed
    /\ halted.keys \subseteq Keys(pre.chunk_buffer)
    /\ pre.bytes_hashed \in Keys(pre.chunk_buffer)
    /\ Len(fed) = 3
    /\ chunk_buffer = {}
    /\ bytes_hashed = total_size

\* ceil(total / n), by its definition.
CeilDiv(total, n) == CHOOSE c \in 0 .. total : c * n >= total /\ (c - 1) * n < total

Spawned == {w \in Workers : wpc[w] # "idle"}

\* What holds of the fallback loop whatever download_chunk does: every
\* process_chunks call but the first follows a fetch and advances the watermark
\* by at least 1, unless it is the call that fails; so at most total_size -
\* (the watermark after the first call) fetches are made.
FallbackProgress ==
    /\ \A k \in 2 .. Len(wmlog) :
         \/ wmlog[k] > wmlog[k - 1]
         \/ k = Len(wmlog) /\ mainpc = "error"
    /\ wmlog = <<>> => fetches = 0
    /\ wmlog # <<>> => /\ fetches <= total_size - wmlog[1]
                       /\ fetches <= Len(wmlog)
                       /\ Len(wmlog) <= fetches + 1

\* C7 (as claimed): every fetch of the fallback loop is followed by a merge
\* that advances the watermark, at most total_size - watermark fetches are
\* made, and the loop ends, unless a merge fails with the overrun error
\* (mainpc = "error"), with bytes_hashed = total_size.
C7_FallbackReachesFullSize ==
    /\ FallbackProgress
    /\ mainpc \in {"finalize", "done", "panicked"} => bytes_hashed = total_size

\* C8: finalize is called at most once, and only with bytes_hashed =
\* total_size: the digest is of total_size bytes and the warning of the
\* short-fall is never printed.
C8_FinalizedOnceAtFullSize ==
    /\ finalized <= 1
    /\ mainpc = "finalize" => (finalized = 0 /\ bytes_hashed = total_size)
    /\ finalized = 1 => /\ mainpc = "done"
                        /\ bytes_hashed = total_size
                        /\ Len(digest) = total_size
                        /\ ~warned
    /\ mainpc # "done" => finalized = 0

\* C8 witness: a digest was emitted by a run that needed a fallback fetch.
C8_Witness ==
    /\ finalized = 1
    /\ fetches >= 1
    /\ digest # Body(0, total_size, total_size)

\* C9: a worker has advanced its cursor by at least 1 for every fetch it has
\* completed, whatever the fetches returned, so it makes at most
\* range_end - start + 1 fetches; it ends with its cursor past range_end, and
\* while a worker runs the main thread is only spawning or joining (no worker
\* ends the run).
C9_WorkerTerminates ==
    \A w \in Spawned :
      LET start == w * CeilDiv(total_size, num_threads)
          pending == IF wpc[w] \in {"locked", "panicked"} THEN 1 ELSE 0
      IN  /\ current_start[w] >= start
          /\ wfetches[w] - pending <= current_start[w] - start
          /\ wfetches[w] <= range_end[w] - start + 1
          /\ wpc[w] \in {"loop", "locked"} => current_start[w] <= range_end[w]
          /\ wpc[w] = "done" => current_start[w] > range_end[w]
          /\ wpc[w] \in {"loop", "locked"} => mainpc \in {"spawn", "join"}

\* C9 witness: a worker of a range of at least two bytes ended after as many
\* fetches as its range has bytes.
C9_Witness ==
    \E w \in Spawned :
      /\ wpc[w] = "done"
      /\ wfetches[w] >= 2
      /\ wfetches[w] = range_end[w] - w * CeilDiv(total_size, num_threads) + 1

\* C10 (as claimed): the threads spawned are those i with i * chunkSize <
\* total_size, thread i has the range [i * chunkSize, min((i + 1) * chunkSize
\* - 1, total_size - 1)], and the ranges are disjoint and cover [0, total_size).
C10_PartitionRule ==
    LET cs == CeilDiv(total_size, num_threads)
        range(w) == (w * cs) .. range_end[w]
    IN  /\ \A w \in Spawned :
             /\ w * cs < total_size
             /\ range_end[w] = Min((w + 1) * cs - 1, total_size - 1)
             /\ range_end[w] <= total_size - 1
             /\ wfetches[w] = 0 => current_start[w] = w * cs
        /\ \A v, w \in Spawned : v # w => range(v) \cap range(w) = {}
        /\ mainpc # "spawn"
             => /\ Spawned = {i \in 0 .. (num_threads - 1) : i * cs < total_size}
                /\ UNION {range(w) : w \in Spawned} = 0 .. (total_size - 1)

\* C11 (as claimed): whatever fetches fail or come back empty, in the workers
\* and in the fallback loop, while successful fetches return bytes of the
\* resource inside the requested range only, the run does not return an error
\* (and no thread is aborted): it reaches finalization.
C11_FailuresNeverEndRun ==
    server \in {"exact", "lossy"} => mainpc \notin {"error", "panicked"}

\* The length a response declares: its content-length value, trimmed and
\* parsed.
Declared(s) == parse(trim(s.length.value))

\* C12 (as claimed): for a response that declares a body length L, however
\* the stream splits its bytes into reads and wherever it closes, once the
\* header terminator has been seen read_response ends without error and
\* returns a body of min(L, body bytes the stream delivers) bytes; the body
\* never gets longer than L and the remaining count never underflows.
C12_BodyLengthIsMin ==
    (/\ reader.headers_complete
     /\ stream.utf8
     /\ stream.close = "eof"
     /\ stream.length.present
     /\ Declared(stream).ok)
    => /\ reader.body <= Declared(stream).value
       /\ ~reader.remaining.wrapped
       /\ reader.result \in {"none", "Ok"}
       /\ reader.pc = "done" =>
             /\ reader.result = "Ok"
             /\ reader.body = Min(Declared(stream).value, stream.sent)

\* C13 (as claimed): a response whose content-length value does not parse as
\* a non-negative integer is read as one without a content-length line:
\* read_response returns Ok with the body bytes that came with the headers,
\* and nothing panics.
C13_UnparsableLengthIsAbsent ==
    (/\ reader.pc = "done"
     /\ reader.headers_complete
     /\ stream.utf8
     /\ stream.length.present
     /\ ~Declared(stream).ok)
    => /\ reader.result = "Ok"
       /\ reader.body = reader.first

\* C14: whenever no merge pass is in progress (after every worker insert,
\* every process_chunks return and every fallback insert, which is every
\* state of a run), every key in the reassembly buffer is >= the watermark.
C14_KeysAtOrAboveWatermark ==
    \A e \in chunk_buffer : e.start >= bytes_hashed

\* C14 witness: a merge pass has discarded an entry that lay behind the
\* watermark (a thread's first chunk, covered by a longer chunk that was
\* hashed) and has stopped at a gap with entries left in the buffer.
C14_Witness ==
    /\ mainpc = "fetch"
    /\ chunk_buffer # {}
    /\ \E i \in 1 .. Len(fed) :
         \E w \in Workers :
            /\ wpc[w] \in {"done", "panicked"}
            /\ wfetches[w] >= 2
            /\ fed[i].key < RangeStart(w, total_size, num_threads)
            /\ RangeStart(w, total_size, num_threads) < fed[i].key + fed[i].len

\* C15 (as claimed): for any sequence of chunk insertions, running
\* process_chunks after every insertion and running it once after all of them
\* end with the same watermark, the same bytes hashed and the same error
\* outcome.
C15_IncrementalEqualsSingle ==
    single.drained =>
        /\ single.bytes_hashed = bytes_hashed
        /\ single.hasher = hasher
        /\ (single.err # "none") = (hop = "err")

\* C15 (amended): the same, for any sequence of chunk insertions whose keys
\* are pairwise distinct (no insertion replaces an entry, as in a run: C19).
C15_IncrementalEqualsSingle_DistinctKeys ==
    (single.drained /\ ~single.repeated) =>
        /\ single.bytes_hashed = bytes_hashed
        /\ single.hasher = hasher
        /\ (single.err # "none") = (hop = "err")

\* C15 witness: three chunks that cover the resource, inserted in descending
\* order of their keys: the calls after the first two insertions stop at the
\* gap and the third hashes all three, as the single drain does.
C15_Witness ==
    /\ single.drained
    /\ Len(single.keys) = 3
    /\ single.keys[1] > single.keys[2]
    /\ single.keys[2] > single.keys[3]
    /\ single.keys[3] = 0
    /\ Len(fed) = 3
    /\ bytes_hashed = total_size
    /\ single.bytes_hashed = total_size
    /\ single.err = "none"

\* C16: a failed or empty fetch of a worker at cursor c inserts exactly one
\* entry, the 1-byte placeholder at offset c, and moves the cursor by exactly
\* 1; and when the run is done, at every such c over which no hashed chunk
\* extends from a lower offset, the byte at position c of the hashed stream is
\* the placeholder's value and not the server's byte. (A chunk that extends
\* over c from a lower offset and was not hashed was discarded: it is no
\* part of the stream.)
C16_PlaceholderAtCursor ==
    /\ [][\A w \in Workers :
            (/\ wpc[w] = "locked"
             /\ wpc'[w] # "locked"
             /\ got[w].kind = "err" \/ (got[w].kind = "ok" /\ got[w].body = <<>>))
            => /\ current_start[w] \notin Keys(chunk_buffer)
               /\ chunk_buffer' = chunk_buffer
                                    \cup {[start |-> current_start[w], chunk |-> <<0>>]}
               /\ current_start'[w] = current_start[w] + 1]_vars
    /\ [](mainpc = "done" =>
            \A c \in placed :
               (/\ c < total_size
                /\ \A i \in 1 .. Len(fed) :
                      ~(fed[i].key < c /\ c < fed[i].key + fed[i].len))
               => /\ digest[c + 1] = 0
                  /\ digest[c + 1] # Resource(c))

\* C16 witness: a finished run without fallback fetches in which a worker got
\* a failed or empty fetch at an offset c between two fetches that brought
\* bytes: the hashed stream has the placeholder at c between server bytes.
C16_Witness ==
    /\ mainpc = "done"
    /\ fetches = 0
    /\ \E c \in placed :
         /\ c > 0
         /\ c + 1 < total_size
         /\ digest[c] = Resource(c - 1)
         /\ digest[c + 1] = 0
         /\ digest[c + 2] = Resource(c + 1)
         /\ \E w \in Workers :
               /\ wpc[w] = "done"
               /\ RangeStart(w, total_size, num_threads) < c
               /\ c < range_end[w]

\* The threads inside the buffer's critical section: a worker between its
\* lock() and the drop of its guard, the main thread from line 95 on.
InCriticalSection ==
    {<<"worker", w>> : w \in {v \in Workers : wpc[v] = "locked"}}
    \cup (IF mainpc \in {"loop", "fetch", "finalize"} THEN {<<"main">>} ELSE {})

\* C17: a worker holds the buffer lock only for a single insert: while it
\* holds the lock its download_chunk has returned and when it lets the lock go
\* it has inserted one entry and started no fetch; a worker whose network
\* call is in progress does not hold the lock; and at most one thread is
\* inside the buffer's critical section.
C17_LockOnlyForInsert ==
    /\ [](\A w \in Workers :
            /\ lock = HeldBy(w) => (wpc[w] = "locked" /\ got[w].kind \in {"ok", "err"})
            /\ wpc[w] = "loop" => lock # HeldBy(w))
    /\ [](Cardinality(InCriticalSection) <= 1)
    /\ [][\A w \in Workers :
            (lock = HeldBy(w) /\ lock' # lock)
            => /\ lock' = Free
               /\ Keys(chunk_buffer') = Keys(chunk_buffer) \cup {current_start[w]}
               /\ wfetches' = wfetches]_vars

\* C17 witness: a worker holds the lock, with an entry to insert, while
\* another worker's network call is in progress and entries of both are in
\* the buffer.
C17_Witness ==
    \E w, v \in Workers :
        /\ w # v
        /\ lock = HeldBy(w)
        /\ wpc[w] = "locked"
        /\ wpc[v] = "loop"
        /\ wfetches[v] >= 2
        /\ wfetches[w] >= 2

\* C18: while any worker thread is running there is no merge pass, no hash
\* update, no watermark change and no fallback fetch, and the main thread
\* does not hold the buffer lock; the main thread takes the lock only after
\* every worker has ended, and finds it free, so nobody waits for a lock
\* whose holder cannot go on.
C18_FallbackAfterWorkers ==
    /\ (\E w \in Workers : wpc[w] \in {"loop", "locked"})
       => /\ mainpc \in {"spawn", "join"}
          /\ lock # HeldByMain
          /\ bytes_hashed = 0
          /\ hasher = <<>>
          /\ fed = <<>>
          /\ wmlog = <<>>
          /\ fetches = 0
    /\ lock = HeldByMain
       => /\ mainpc \in {"loop", "fetch", "finalize"}
          /\ \A w \in Workers : wpc[w] \in {"idle", "done", "panicked"}
    /\ (mainpc = "join" /\ joined = Len(handles)) => lock = Free
    /\ \A w \in Workers : lock = HeldBy(w) => wpc[w] = "locked"

\* C18 witness: the fallback loop at work (a merge pass done, a fetch about
\* to start) after several workers have ended, one of them by a panic.
C18_Witness ==
    /\ mainpc = "fetch"
    /\ lock = HeldByMain
    /\ Len(handles) >= 3
    /\ bytes_hashed > 0
    /\ \E w \in Workers : wpc[w] = "panicked"
    /\ \E w \in Workers : wpc[w] = "done"

\* C19: no insertion of a run replaces an entry of the buffer. A key a worker
\* inserts lies inside the worker's own range and a worker's keys grow
\* strictly (its cursor only moves forward); the ranges of different workers
\* share no offset; and the fallback loop inserts at the watermark only when
\* the buffer has no entry of that key. The range is the one the code gives
\* the worker (lines 48-49).
C19_NoInsertReplaces ==
    /\ [](\A w, v \in Spawned :
            /\ RangeStart(w, total_size, num_threads) <= range_end[w]
            /\ w # v => \/ range_end[w] < RangeStart(v, total_size, num_threads)
                        \/ range_end[v] < RangeStart(w, total_size, num_threads))
    /\ [][\A w \in Workers :
            (wpc[w] = "locked" /\ wpc'[w] # "locked")
            => /\ current_start[w] \notin Keys(chunk_buffer)
               /\ Cardinality(chunk_buffer') = Cardinality(chunk_buffer) + 1
               /\ RangeStart(w, total_size, num_threads) <= current_start[w]
               /\ current_start[w] <= range_end[w]
               /\ current_start'[w] > current_start[w]
               /\ \A e \in chunk_buffer :
                     (RangeStart(w, total_size, num_threads) <= e.start
                      /\ e.start <= range_end[w]) => e.start < current_start[w]]_vars
    /\ [][(mainpc = "fetch" /\ mainpc' = "loop")
            => /\ bytes_hashed \notin Keys(chunk_buffer)
               /\ Keys(chunk_buffer') = Keys(chunk_buffer) \cup {bytes_hashed}
               /\ Cardinality(chunk_buffer') = Cardinality(chunk_buffer) + 1]_vars

\* C19 witness: the fallback loop has inserted an entry at the watermark, in
\* front of entries that a worker has inserted with several fetches, after
\* another worker has left a gap.
C19_Witness ==
    /\ mainpc = "loop"
    /\ fetches >= 1
    /\ Cardinality(chunk_buffer) >= 3
    /\ bytes_hashed \in Keys(chunk_buffer)
    /\ \E w, v \in Workers :
         /\ wpc[w] = "done"
         /\ wfetches[w] >= 2
         /\ wpc[v] = "panicked"

\* The entries of buf whose keys lie in the range of worker w.
InRangeOf(buf, w) ==
    {e \in buf : /\ RangeStart(w, total_size, num_threads) <= e.start
                 /\ e.start <= range_end[w]}

\* While the workers run (no merge pass has touched the buffer), the entries
\* a worker has inserted cover [range start, cursor) without gap or overlap.
WorkersTile ==
    mainpc \in {"spawn", "join"} =>
        \A w \in Spawned :
            TilesFrom(InRangeOf(chunk_buffer, w),
                      RangeStart(w, total_size, num_threads), current_start[w])

\* C20 (as claimed): the entries a worker has inserted tile [range start,
\* cursor) contiguously; hence, when every worker has ended normally and no
\* chunk extends past its worker's range end (each cursor ended at range end
\* + 1), the first merge pass after the join reaches watermark = total_size
\* and the fallback loop makes no fetch.
C20_TiledRangesNeedNoFallback ==
    /\ WorkersTile
    /\ (/\ wmlog # <<>>
        /\ \A w \in Spawned : wpc[w] = "done" /\ current_start[w] = range_end[w] + 1)
       => /\ wmlog[1] = total_size
          /\ fetches = 0

====
